---- MODULE Spec2Model ----
(***************************************************************************)
(* A model of MIRAI's solver abstraction layer (checker/src/smt_solver.rs) *)
(* and of its test synthesis engine (checker/src/test_gen.rs).             *)
(*                                                                         *)
(* SolverSpec drives one SmtSolver object, either an implementation that   *)
(* keeps the trait's default set_backtrack_position / backtrack /          *)
(* solve_expression, or SolverStub, through arbitrary call sequences.      *)
(* TestGenSpec drives one TestGen through add_test calls and one output.   *)
(***************************************************************************)
EXTENDS Integers, Sequences, FiniteSets, TLC

VARIABLES
    impl,                   \* which implementation of SmtSolver the object is
    number_of_backtracks,   \* the model field of that name (default 0)
    open_contexts,          \* ghost of ProtocolSpec: the contexts now pushed
    backtracked,            \* ghost of ProtocolSpec: backtrack has been called
    odd_calls,              \* ghost: the number of calls made so far is odd
    pushes,                 \* ghost: the set_backtrack_position calls that passed
    violated,               \* the method whose precondition failed, or "none"
    call,                   \* the last call on the solver and what it returned
    testcase_map,           \* TestGen::testcase_map, a BTreeMap keyed by name
    status,                 \* of the TestGen: "running", "panicked", "emitted"
    out_dir,                \* the output directory exists
    files,                  \* the files of the output directory, by key
    log,                    \* what TestGen::output logged with error!
    added,                  \* ghost: the arguments of the last add_test call
    calls,                  \* ghost: the arguments of every add_test call made
    walk                    \* a grab_top call: its input, locals and position

solverVars ==
    <<impl, number_of_backtracks, open_contexts, backtracked, odd_calls,
      pushes, violated, call>>

testGenVars == <<testcase_map, status, out_dir, files, log, added, calls>>

vars == <<solverVars, testGenVars, walk>>

(***************************************************************************)
(* smt_solver.rs                                                           *)
(***************************************************************************)

\* The depth bound in the precondition of set_backtrack_position.
MaxBacktracks == 1000

\* The expressions handed to assert and solve_expression are 0 .. NumExprs-1
\* (SolverStub is an SmtSolver<usize>).
NumExprs == 1

Exprs == 0 .. (NumExprs - 1)

\* enum SmtResult
SmtResult == {"Satisfiable", "Unsatisfiable", "Undefined"}

Impls == {"Default", "Stub"}

\* An off-by-one depth guard.
MutSetBacktrackPositionPre(n) == n <= MaxBacktracks

\* The default SmtSolver::set_backtrack_position: its precondition on the
\* model field, and the value it then stores in the field.
DefaultSetBacktrackPositionPre(n) == n < MaxBacktracks

DefaultSetBacktrackPositionField(n) == n + 1

\* The default SmtSolver::backtrack: a precondition and nothing else, so the
\* model field keeps its value.
DefaultBacktrackPre(n) == n > 0

\* A backtrack that takes back the push it matches.
MutBacktrackDecrements(n) == n - 1

DefaultBacktrackField(n) == n

\* SolverStub::set_backtrack_position and SolverStub::backtrack are empty.
StubSetBacktrackPositionField(n) == n

StubBacktrackField(n) == n

\* A stub that claims a model.
MutStubSolve == "Satisfiable"

\* SolverStub::solve.
StubSolve == "Undefined"

\* SolverStub::get_model_params: vec![].
StubGetModelParams == << >>

\* Dynamic dispatch on the implementation.
set_backtrack_position_pre(i, n) ==
    IF i = "Stub" THEN TRUE ELSE DefaultSetBacktrackPositionPre(n)

set_backtrack_position_field(i, n) ==
    IF i = "Stub" THEN StubSetBacktrackPositionField(n)
    ELSE DefaultSetBacktrackPositionField(n)

backtrack_pre(i, n) == IF i = "Stub" THEN TRUE ELSE DefaultBacktrackPre(n)

backtrack_field(i, n) ==
    IF i = "Stub" THEN StubBacktrackField(n) ELSE DefaultBacktrackField(n)

\* solve is abstract in the trait: an implementation other than the stub
\* answers with any SmtResult, given here as the oracle.
solve(i, oracle) == IF i = "Stub" THEN StubSolve ELSE oracle

\* The record of one call: the method, its expression argument (arg, "none"
\* for a method that takes none), the trait methods it ran in order, and what
\* it returned (ret for an SmtResult, params for get_model_params).
Call(op, steps, ret) ==
    [op |-> op, arg |-> "none", steps |-> steps, ret |-> ret,
     params |-> << >>]

\* A solve_expression that backtracks only after a Satisfiable result.
MutSolveExpressionKeepsContext(i, n, e, oracle) ==
    LET n1 == set_backtrack_position_field(i, n)
        result == solve(i, oracle)
        steps == <<"set_backtrack_position", <<"assert", e>>,
                   <<"solve", result>>>>
    IN  [field |-> n1,
         violated |-> "none",
         call |-> [Call("solve_expression",
                        IF result = "Satisfiable"
                        THEN Append(steps, "backtrack") ELSE steps,
                        result)
                     EXCEPT !.arg = e]]

\* SmtSolver::solve_expression (never overridden): set_backtrack_position,
\* assert, solve, backtrack, return the result of solve.  A violated
\* precondition ends the call where it happens.  The outcome is the model
\* field, the violated precondition and the call record; the solve step is
\* recorded with its result.
solve_expression(i, n, e, oracle) ==
    LET n1 == set_backtrack_position_field(i, n)
        result == solve(i, oracle)
        all == <<"set_backtrack_position", <<"assert", e>>,
                 <<"solve", result>>, "backtrack">>
    IN  IF ~set_backtrack_position_pre(i, n)
        THEN [field |-> n, violated |-> "set_backtrack_position",
              call |-> [Call("solve_expression",
                             <<"set_backtrack_position">>, "none")
                          EXCEPT !.arg = e]]
        ELSE IF ~backtrack_pre(i, n1)
        THEN [field |-> n1, violated |-> "backtrack",
              call |-> [Call("solve_expression", all, "none")
                          EXCEPT !.arg = e]]
        ELSE [field |-> backtrack_field(i, n1),
              violated |-> "none",
              call |-> [Call("solve_expression", all, result)
                          EXCEPT !.arg = e]]

(***************************************************************************)
(* test_gen.rs: strings                                                    *)
(*                                                                         *)
(* A string is the sequence of its characters, so that replace, the        *)
(* ordering of BTreeMap keys and number formatting are computed as the     *)
(* code computes them.                                                     *)
(***************************************************************************)

\* The byte of each character used, which orders String keys.
Code ==
    [c \in {"-", ".", "0", "1", "2", "3", "4", "5", "6", "7", "8", "9", ":",
            "_", "a", "b", "e", "f", "l", "m", "p", "r", "s", "t", "u", "x"}
       |-> CASE c = "-" -> 45 [] c = "." -> 46 [] c = "0" -> 48
             [] c = "1" -> 49 [] c = "2" -> 50 [] c = "3" -> 51
             [] c = "4" -> 52 [] c = "5" -> 53 [] c = "6" -> 54
             [] c = "7" -> 55 [] c = "8" -> 56 [] c = "9" -> 57
             [] c = ":" -> 58 [] c = "_" -> 95 [] c = "a" -> 97
             [] c = "b" -> 98 [] c = "e" -> 101 [] c = "f" -> 102
             [] c = "l" -> 108 [] c = "m" -> 109 [] c = "p" -> 112
             [] c = "r" -> 114 [] c = "s" -> 115 [] c = "t" -> 116
             [] c = "u" -> 117 [] c = "x" -> 120]

\* String's Ord: lexicographic on bytes, a proper prefix first.
RECURSIVE StrLess(_, _)
StrLess(s, t) ==
    IF t = << >> THEN FALSE
    ELSE IF s = << >> THEN TRUE
    ELSE IF Head(s) = Head(t) THEN StrLess(Tail(s), Tail(t))
    ELSE Code[Head(s)] < Code[Head(t)]

\* str::replace: every non-overlapping match of from, left to right.
RECURSIVE Replace(_, _, _)
Replace(s, from, to) ==
    IF Len(s) < Len(from) THEN s
    ELSE IF SubSeq(s, 1, Len(from)) = from
    THEN to \o Replace(SubSeq(s, Len(from) + 1, Len(s)), from, to)
    ELSE <<Head(s)>> \o Replace(Tail(s), from, to)

Digit(d) ==
    CASE d = 0 -> "0" [] d = 1 -> "1" [] d = 2 -> "2" [] d = 3 -> "3"
      [] d = 4 -> "4" [] d = 5 -> "5" [] d = 6 -> "6" [] d = 7 -> "7"
      [] d = 8 -> "8" [] d = 9 -> "9"

\* to_string of an unsigned number: its decimal digits.
RECURSIVE NatToString(_)
NatToString(n) ==
    IF n < 10 THEN <<Digit(n)>>
    ELSE NatToString(n \div 10) \o <<Digit(n % 10)>>

\* i128::to_string.
IntToString(n) == IF n < 0 THEN <<"-">> \o NatToString(0 - n) ELSE NatToString(n)

\* bool::to_string.
BoolToString(b) ==
    IF b THEN <<"t", "r", "u", "e">> ELSE <<"f", "a", "l", "s", "e">>

\* impl Display for SmtParamValue (smt_solver.rs).
SmtParamValueToString(v) ==
    CASE v.kind = "Bool" -> BoolToString(v.val)
      [] v.kind = "Numeral" -> IntToString(v.val)
      [] OTHER -> <<"_">>

\* The keys of a BTreeMap in iteration order.
RECURSIVE SortedKeys(_)
SortedKeys(keys) ==
    IF keys = {} THEN << >>
    ELSE LET least == CHOOSE k \in keys :
                         \A other \in keys \ {k} : StrLess(k, other)
         IN  <<least>> \o SortedKeys(keys \ {least})

\* BTreeMap::new().
EmptyMap == [k \in {} |-> k]

\* BTreeMap::insert.
MapInsert(m, key, v) ==
    [k \in DOMAIN m \cup {key} |-> IF k = key THEN v ELSE m[k]]

(***************************************************************************)
(* test_gen.rs: what add_test is given                                     *)
(***************************************************************************)

\* PathEnum::Parameter and PathEnum::QualifiedPath.
Parameter(ordinal) == [kind |-> "Parameter", ordinal |-> ordinal]

QualifiedPath(qualifier, selector) ==
    [kind |-> "QualifiedPath", qualifier |-> qualifier, selector |-> selector]

\* SmtParamValue.
Bool(b) == [kind |-> "Bool", val |-> b]

Numeral(n) == [kind |-> "Numeral", val |-> n]

Unknown == [kind |-> "Unknown", val |-> 0]

\* The paths of the model parameters: an argument itself, one of its fields,
\* and a field of a field of a second argument.
Paths ==
    {Parameter(1),
     QualifiedPath(Parameter(1), "field0"),
     QualifiedPath(QualifiedPath(Parameter(2), "deref"), "field1")}

\* The display names get_debug_name gives the model parameters.
ParamNames == {<<"a">>, <<"b">>}

\* SmtParam::get_val of the parameter with this display name and path.
ParamValue(name, path) ==
    CASE name = <<"a">> /\ path = Parameter(1) -> Numeral(42)
      [] name = <<"b">> /\ path = Parameter(1) -> Numeral(0 - 7)
      [] name = <<"a">> /\ path.kind = "QualifiedPath"
                        /\ path.qualifier = Parameter(1) -> Bool(TRUE)
      [] name = <<"b">> /\ path.kind = "QualifiedPath"
                        /\ path.qualifier = Parameter(1) -> Unknown
      [] name = <<"a">> -> Numeral(100)
      [] OTHER -> Bool(FALSE)

\* The Box<dyn SmtParam> values a solver model may hold.
ModelParams ==
    {[name |-> n, path |-> p, val |-> ParamValue(n, p)] :
        n \in ParamNames, p \in Paths}

\* A call's params holds at most MaxParams of them.
MaxParams == 2

RECURSIVE SeqsUpTo(_, _)
SeqsUpTo(S, n) ==
    IF n = 0 THEN {<< >>}
    ELSE LET shorter == SeqsUpTo(S, n - 1)
         IN  shorter \cup {Append(q, x) : q \in {r \in shorter : Len(r) = n - 1},
                                         x \in S}

ParamLists == SeqsUpTo(ModelParams, MaxParams)

\* The functions under analysis.  a.b and a::b are two functions whose names
\* sanitize to the same key.
FunctionNames ==
    {<<"a", ".", "b">>, <<"a", ":", ":", "b">>, <<"f">>}

\* type_visitor.mir of each function: its arg_count and its local_decls, the
\* types of the locals from local 0 (the return place) on.
Mir(function_name) ==
    IF function_name = <<"a", ".", "b">>
    THEN [arg_count |-> 2,
          local_decls |-> [l \in 0 .. 2 |->
                              <<<<"u", "8">>, <<"s", "1">>, <<"s", "2">>>>[l + 1]]]
    ELSE IF function_name = <<"f">>
    THEN [arg_count |-> 1,
          local_decls |-> [l \in 0 .. 1 |-> <<<<"u", "8">>, <<"s", "1">>>>[l + 1]]]
    ELSE [arg_count |-> 1,
          local_decls |-> [l \in 0 .. 1 |-> <<<<"u", "8">>, <<"t", "1">>>>[l + 1]]]

\* debug_names of each function: a.b names its local 1, the others name none.
DebugNames(function_name) ==
    IF function_name = <<"a", ".", "b">>
    THEN [l \in {1} |-> <<"x">>]
    ELSE EmptyMap

\* type_visitor.get_path_rustc_type: the type of an argument is the type of
\* its local, the type of a field depends on its selector.
RECURSIVE get_path_rustc_type(_, _)
get_path_rustc_type(mir, path) ==
    IF path.kind = "Parameter"
    THEN IF path.ordinal \in DOMAIN mir.local_decls
         THEN mir.local_decls[path.ordinal] ELSE <<"_">>
    ELSE IF path.selector = "deref"
    THEN get_path_rustc_type(mir, path.qualifier)
    ELSE IF path.selector = "field0" THEN <<"u", "8">>
    ELSE <<"b", "l">>

\* Path::get_ordinal of a root path.
get_ordinal(path) == path.ordinal

(***************************************************************************)
(* test_gen.rs: add_test                                                   *)
(***************************************************************************)

\* Bounds the number of add_test calls made on one TestGen.
MaxTests == 2

\* TestGen::grab_top: the loop that walks the qualifiers; unqualified is the
\* Option, empty for None.
RECURSIVE GrabTopLoop(_, _)
GrabTopLoop(last, unqualified) ==
    IF unqualified = << >> THEN last
    ELSE LET qualified == unqualified[1]
         IN  GrabTopLoop(qualified,
                         IF qualified.kind = "QualifiedPath"
                         THEN <<qualified.qualifier>> ELSE << >>)

grab_top(path) ==
    GrabTopLoop(path,
                IF path.kind = "QualifiedPath" THEN <<path.qualifier>>
                ELSE << >>)

\* The paths grab_top is walked on: every root below qualified by up to
\* MaxDepth selectors.  Result and LocalVariable stand for the kinds of path
\* that are neither a Parameter nor a QualifiedPath.
MaxDepth == 3

RootPaths ==
    {Parameter(1), Parameter(2), [kind |-> "Result"],
     [kind |-> "LocalVariable", ordinal |-> 3]}

Selectors == {"field0", "field1", "deref"}

\* The path that qualifies a root by these selectors, the innermost first.
RECURSIVE Qualify(_, _)
Qualify(root, selectors) ==
    IF selectors = << >> THEN root
    ELSE QualifiedPath(Qualify(root, SubSeq(selectors, 1, Len(selectors) - 1)),
                       selectors[Len(selectors)])

\* function_name.replace(".", "_").replace("::", "_")
function_name_filtered(function_name) ==
    Replace(Replace(function_name, <<".">>, <<"_">>), <<":", ":">>, <<"_">>)

\* The display name of the argument at this local: its debug name, or
\* format!("param_{}", ordinal + 1).
ArgName(debug_names, ordinal) ==
    IF ordinal \in DOMAIN debug_names THEN debug_names[ordinal]
    ELSE <<"p", "a", "r", "a", "m", "_">> \o NatToString(ordinal + 1)

\* The FuncArg pushed by iteration i of 0..arg_count: local_iter has skipped
\* local 0, so it yields local i + 1.
NewFuncArg(mir, debug_names, i) ==
    LET local == i + 1
    IN  [ty |-> mir.local_decls[local],
         name |-> ArgName(debug_names, local),
         ordinal |-> local,
         related_to |-> EmptyMap]

\* The FuncTestCaseInfo inserted the first time a key is seen.
NewFuncTestCaseInfo(function_name, mir, debug_names) ==
    [func_name |-> function_name_filtered(function_name),
     param_map |-> EmptyMap,
     testcases |-> << >>,
     args |-> [j \in 1 .. mir.arg_count |-> NewFuncArg(mir, debug_names, j - 1)],
     func_name_raw |-> function_name]

\* The ResolvedParam built from one model parameter; param_ordinal is the
\* Option, empty for None.
Resolve(mir, param) ==
    LET ty == get_path_rustc_type(mir, param.path)
    IN  [name |-> param.name,
         ty |-> ty,
         type_name |-> ty,
         value_string |-> SmtParamValueToString(param.val),
         param_ordinal |-> IF param.path.kind = "Parameter"
                           THEN <<param.path.ordinal>> ELSE << >>,
         related_to |-> get_ordinal(grab_top(param.path))]

\* An insert that overwrites.
MutInsertOverwrite(m, name, resolved) == MapInsert(m, name, resolved)

\* if !map.contains_key(&name) { map.insert(name, resolved) }
InsertIfAbsent(m, name, resolved) ==
    IF name \in DOMAIN m THEN m ELSE MapInsert(m, name, resolved)

\* One iteration of the loop over params.  func_info.args[related_to - 1]
\* panics when the index is out of bounds, before anything is recorded for
\* this parameter.
RecordParam(acc, mir, param) ==
    LET resolved == Resolve(mir, param)
        info == acc.func_info
        index == resolved.related_to - 1
    IN  IF acc.panicked THEN acc
        ELSE IF index < 0 \/ index >= Len(info.args)
        THEN [acc EXCEPT !.panicked = TRUE]
        ELSE [acc EXCEPT
                !.func_info.args[index + 1].related_to =
                    InsertIfAbsent(@, resolved.name, resolved),
                !.func_info.param_map =
                    InsertIfAbsent(@, resolved.name, resolved),
                !.resolved_params = Append(@, resolved)]

RECURSIVE RecordParams(_, _, _)
RecordParams(acc, mir, params) ==
    IF params = << >> THEN acc
    ELSE RecordParams(RecordParam(acc, mir, Head(params)), mir, Tail(params))

\* A push at the front.
MutPushFront(testcases, testcase) == <<testcase>> \o testcases

\* func_info.testcases.push(Testcase { .. })
PushTestcase(testcases, testcase) == Append(testcases, testcase)

\* TestGen::add_test on the map: the map it leaves and whether it panicked.
add_test(map, function_name, val, params, mir, debug_names) ==
    LET key == function_name_filtered(function_name)
        map1 == IF key \in DOMAIN map THEN map
                ELSE MapInsert(map, key,
                               NewFuncTestCaseInfo(function_name, mir,
                                                   debug_names))
        done == RecordParams([func_info |-> map1[key],
                              resolved_params |-> << >>,
                              panicked |-> FALSE], mir, params)
        pushed == [done.func_info EXCEPT
                     !.testcases =
                         PushTestcase(@, [abstract_val |-> val,
                                          param_list |-> done.resolved_params])]
    IN  [map |-> [map1 EXCEPT ![key] = IF done.panicked THEN done.func_info
                                       ELSE pushed],
         panicked |-> done.panicked]

\* The add_test calls made so far that returned.
RECURSIVE SumLen(_, _)
SumLen(map, keys) ==
    IF keys = {} THEN 0
    ELSE LET k == CHOOSE x \in keys : TRUE
         IN  Len(map[k].testcases) + SumLen(map, keys \ {k})

NumTests == SumLen(testcase_map, DOMAIN testcase_map)

\* TestGen::new.
TestGenNew ==
    /\ testcase_map = EmptyMap
    /\ status = "running"
    /\ out_dir = FALSE
    /\ files = EmptyMap
    /\ log = << >>
    /\ added = << >>
    /\ calls = << >>

\* An add_test that makes the group anew when the raw name of the call is
\* not the raw name of the group.
MutAddTestRecreates ==
    /\ status = "running"
    /\ NumTests < MaxTests
    /\ \E function_name \in FunctionNames, params \in ParamLists :
          LET key == function_name_filtered(function_name)
              stale == /\ key \in DOMAIN testcase_map
                       /\ testcase_map[key].func_name_raw # function_name
              kept == IF stale
                      THEN [k \in DOMAIN testcase_map \ {key} |->
                               testcase_map[k]]
                      ELSE testcase_map
              r == add_test(kept, function_name, "val", params,
                            Mir(function_name), DebugNames(function_name))
          IN  /\ testcase_map' = r.map
              /\ status' = IF r.panicked THEN "panicked" ELSE "running"
              /\ added' = <<function_name, params>>
              /\ calls' = Append(calls, <<function_name, params>>)
    /\ UNCHANGED <<out_dir, files, log>>

AddTest ==
    /\ status = "running"
    /\ NumTests < MaxTests
    /\ \E function_name \in FunctionNames, params \in ParamLists :
          LET r == add_test(testcase_map, function_name, "val", params,
                            Mir(function_name), DebugNames(function_name))
          IN  /\ testcase_map' = r.map
              /\ status' = IF r.panicked THEN "panicked" ELSE "running"
              /\ added' = <<function_name, params>>
              /\ calls' = Append(calls, <<function_name, params>>)
    /\ UNCHANGED <<out_dir, files, log>>

(***************************************************************************)
(* test_gen.rs: output                                                     *)
(*                                                                         *)
(* The generated text is kept as the values its format strings are filled  *)
(* with: a list that the code joins with ", " is the list.                 *)
(***************************************************************************)

\* TestGen::make_constuctor_function: fn construct_<name>(<params>) -> <ty>,
\* one "<name>: Option<<type_name>>" per value of arg.related_to in key order.
make_constuctor_function(arg) ==
    LET keys == SortedKeys(DOMAIN arg.related_to)
    IN  [construct |-> arg.name,
         params |-> [n \in 1 .. Len(keys) |->
                        [name |-> arg.related_to[keys[n]].name,
                         type_name |-> arg.related_to[keys[n]].type_name]],
         returns |-> arg.ty]

\* A loop in which the first parameter of a given ordinal stays.
RECURSIVE MutResolvedArgsFirst(_, _)
MutResolvedArgsFirst(resolved_args, param_list) ==
    IF param_list = << >> THEN resolved_args
    ELSE LET resolved == Head(param_list)
             next == IF /\ resolved.param_ordinal # << >>
                        /\ resolved_args[resolved.param_ordinal[1]] = << >>
                     THEN [resolved_args EXCEPT
                             ![resolved.param_ordinal[1]] = <<resolved>>]
                     ELSE resolved_args
         IN  MutResolvedArgsFirst(next, Tail(param_list))

\* A loop that records no direct value.
MutResolvedArgsNone(resolved_args, param_list) == resolved_args

\* The loop of output_testcase that fills resolved_args: the last parameter
\* of the list with a given ordinal stays.  Each entry is the Option, empty
\* for None.  (ord - 1 is in bounds: add_test indexed the same args with it.)
RECURSIVE ResolvedArgs(_, _)
ResolvedArgs(resolved_args, param_list) ==
    IF param_list = << >> THEN resolved_args
    ELSE LET resolved == Head(param_list)
             next == IF resolved.param_ordinal # << >>
                     THEN [resolved_args EXCEPT
                             ![resolved.param_ordinal[1]] = <<resolved>>]
                     ELSE resolved_args
         IN  ResolvedArgs(next, Tail(param_list))

\* Actuals that are Some(<name>) for every key.
MutConstructorParamsAllSome(arg, testcase) ==
    LET keys == SortedKeys(DOMAIN arg.related_to)
    IN  [n \in 1 .. Len(keys) |-> <<"Some", keys[n]>>]

\* The actuals of a constructor call: Some(<name>) for a key of related_to
\* that names a parameter of the test case, None for the others.
ConstructorParams(arg, testcase) ==
    LET keys == SortedKeys(DOMAIN arg.related_to)
        params == testcase.param_list
    IN  [n \in 1 .. Len(keys) |->
            IF \E p \in 1 .. Len(params) : keys[n] = params[p].name
            THEN <<"Some", keys[n]>> ELSE <<"None">>]

\* Appends to a list the elements of another that are not the empty Option.
RECURSIVE Somes(_)
Somes(options) ==
    IF options = << >> THEN << >>
    ELSE Head(options) \o Somes(Tail(options))

\* TestGen::output_testcase: fn test_<test_ind>() with its let bindings, its
\* constructor calls and the call of the function.
output_testcase(test_ind, func_info, testcase) ==
    LET params == testcase.param_list
        args == func_info.args
        resolved_args ==
            ResolvedArgs([i \in 1 .. Len(args) |-> << >>], params)
        constructed ==
            [i \in 1 .. Len(args) |->
                IF resolved_args[i] # << >> THEN << >>
                ELSE <<[name |-> args[i].name,
                        ty |-> args[i].ty,
                        construct |-> args[i].name,
                        params |-> ConstructorParams(args[i], testcase)]>>]
    IN  [test_ind |-> test_ind,
         intializers |-> [p \in 1 .. Len(params) |->
                             [name |-> params[p].name,
                              type_name |-> params[p].type_name,
                              value_string |-> params[p].value_string]],
         constructor_param_initializers |-> Somes(constructed),
         func_call |-> [func_name_raw |-> func_info.func_name_raw,
                        params |-> [i \in 1 .. Len(args) |->
                                       IF resolved_args[i] # << >>
                                       THEN resolved_args[i][1].value_string
                                       ELSE args[i].name]]]

\* TestGen::output_function_testcases: mod <func_name>_tests with a
\* constructor function per element of args and a test per testcase,
\* numbered by enumerate() from 0.
output_function_testcases(func_info) ==
    [mod |-> func_info.func_name,
     constructor_functions |->
         [i \in 1 .. Len(func_info.args) |->
             make_constuctor_function(func_info.args[i])],
     tests |-> [t \in 1 .. Len(func_info.testcases) |->
                   output_testcase(t - 1, func_info, func_info.testcases[t])]]

\* What can go wrong in output_internal: nothing, create_dir_all, or
\* File::create or write! for the file of one key.
Faults(map) ==
    {<<"none">>, <<"create_dir_all">>}
        \cup {<<"File::create", k>> : k \in DOMAIN map}
        \cup {<<"write!", k>> : k \in DOMAIN map}

\* The loop of output_internal over the keys still to visit.  A file is
\* <<text>> once written and << >> when created and not written.  Each ?
\* returns the error at once.
RECURSIVE WriteFiles(_, _, _, _)
WriteFiles(map, keys, fs, fault) ==
    IF keys = << >> THEN [files |-> fs, err |-> << >>]
    ELSE LET func_name == Head(keys)
             function_str == output_function_testcases(map[func_name])
         IN  IF fault = <<"File::create", func_name>>
             THEN [files |-> fs, err |-> <<fault>>]
             ELSE IF fault = <<"write!", func_name>>
             THEN [files |-> MapInsert(fs, func_name, << >>),
                   err |-> <<fault>>]
             ELSE WriteFiles(map, Tail(keys),
                             MapInsert(fs, func_name, <<function_str>>),
                             fault)

\* An output_internal that visits the keys from the greatest to the least.
MutOutputInternalDescending(map, dir, fs, fault) ==
    IF fault = <<"create_dir_all">>
    THEN [out_dir |-> dir, files |-> fs, err |-> <<fault>>]
    ELSE LET keys == SortedKeys(DOMAIN map)
             r == WriteFiles(map,
                             [i \in 1 .. Len(keys) |-> keys[Len(keys) + 1 - i]],
                             fs, fault)
         IN  [out_dir |-> TRUE, files |-> r.files, err |-> r.err]

\* TestGen::output_internal: the directory, the files and the error it
\* returns (empty for Ok).
output_internal(map, dir, fs, fault) ==
    IF fault = <<"create_dir_all">>
    THEN [out_dir |-> dir, files |-> fs, err |-> <<fault>>]
    ELSE LET r == WriteFiles(map, SortedKeys(DOMAIN map), fs, fault)
         IN  [out_dir |-> TRUE, files |-> r.files, err |-> r.err]

\* TestGen::output: an error of output_internal is logged.
Output ==
    /\ status = "running"
    /\ \E fault \in Faults(testcase_map) :
          LET r == output_internal(testcase_map, out_dir, files, fault)
          IN  /\ out_dir' = r.out_dir
              /\ files' = r.files
              /\ log' = log \o r.err
    /\ status' = "emitted"
    /\ UNCHANGED <<testcase_map, added, calls>>

(***************************************************************************)
(* The solver object                                                       *)
(***************************************************************************)

\* No grab_top call is under way.
NoWalk ==
    [root |-> Parameter(1), path |-> Parameter(1), last |-> Parameter(1),
     unqualified |-> << >>, returned |-> << >>, first |-> << >>,
     pass |-> 0, pc |-> "idle"]

\* A violated precondition is fatal: no call follows it.
Running == violated = "none"

SolverInit ==
    /\ impl \in Impls
    /\ number_of_backtracks = 0
    /\ open_contexts = 0
    /\ backtracked = FALSE
    /\ odd_calls = FALSE
    /\ pushes = 0
    /\ violated = "none"
    /\ call = Call("new", << >>, "none")
    /\ TestGenNew
    /\ walk = NoWalk

SetBacktrackPosition ==
    /\ Running
    /\ IF set_backtrack_position_pre(impl, number_of_backtracks)
       THEN /\ number_of_backtracks' =
                   set_backtrack_position_field(impl, number_of_backtracks)
            /\ UNCHANGED violated
       ELSE /\ violated' = "set_backtrack_position"
            /\ UNCHANGED number_of_backtracks
    /\ call' = Call("set_backtrack_position", <<"set_backtrack_position">>,
                    "none")
    /\ UNCHANGED impl

Backtrack ==
    /\ Running
    /\ IF backtrack_pre(impl, number_of_backtracks)
       THEN /\ number_of_backtracks' = backtrack_field(impl, number_of_backtracks)
            /\ UNCHANGED violated
       ELSE /\ violated' = "backtrack"
            /\ UNCHANGED number_of_backtracks
    /\ call' = Call("backtrack", <<"backtrack">>, "none")
    /\ UNCHANGED impl

\* assert and reset are abstract in the trait and empty in the stub: neither
\* touches the model field.
AssertExpression ==
    /\ Running
    /\ \E e \in Exprs :
          call' = [Call("assert", << <<"assert", e>> >>, "none")
                     EXCEPT !.arg = e]
    /\ UNCHANGED <<impl, number_of_backtracks, violated>>

Reset ==
    /\ Running
    /\ call' = Call("reset", <<"reset">>, "none")
    /\ UNCHANGED <<impl, number_of_backtracks, violated>>

Solve ==
    /\ Running
    /\ \E oracle \in SmtResult :
          call' = Call("solve", <<"solve">>, solve(impl, oracle))
    /\ UNCHANGED <<impl, number_of_backtracks, violated>>

SolveExpression ==
    /\ Running
    /\ \E e \in Exprs, oracle \in SmtResult :
          LET r == solve_expression(impl, number_of_backtracks, e, oracle)
          IN  /\ number_of_backtracks' = r.field
              /\ violated' = r.violated
              /\ call' = r.call
    /\ UNCHANGED impl

\* get_model_params is abstract in the trait; only the stub's is code.
GetModelParams ==
    /\ Running
    /\ impl = "Stub"
    /\ call' = [Call("get_model_params", <<"get_model_params">>, "none")
                   EXCEPT !.params = StubGetModelParams]
    /\ UNCHANGED <<impl, number_of_backtracks, violated>>

\* pushes counts, on a solver with the default methods, the executions of
\* set_backtrack_position that passed the precondition, the one a
\* solve_expression makes as its first step included.
CountPushes ==
    pushes' =
        IF /\ impl = "Default"
           /\ \/ call'.op = "set_backtrack_position" /\ violated' = "none"
              \/ /\ call'.op = "solve_expression"
                 /\ violated' # "set_backtrack_position"
        THEN pushes + 1
        ELSE pushes

\* The ghosts observe the calls and are no state of the solver.  odd_calls
\* changes with every call, so that a call that changes nothing else is still
\* a step.  open_contexts counts the contexts now pushed, successful pushes
\* minus successful backtracks: one more per set_backtrack_position that
\* passed its precondition, one less per backtrack that passed its (a
\* backtrack that finds none pushed leaves none pushed).  backtracked tells
\* whether backtrack has been called at all.  The stub keeps no contexts.
CountContexts ==
    /\ open_contexts' =
          IF impl = "Stub" \/ violated' # "none" THEN open_contexts
          ELSE IF call'.op = "set_backtrack_position" THEN open_contexts + 1
          ELSE IF call'.op = "backtrack" /\ open_contexts > 0
               THEN open_contexts - 1
          ELSE open_contexts
    /\ backtracked' = (backtracked \/ call'.op = "backtrack")
    /\ odd_calls' = ~odd_calls
    /\ CountPushes
    /\ UNCHANGED <<testGenVars, walk>>

\* Any sequence of set_backtrack_position and backtrack calls, its pushed
\* contexts counted.
ProtocolNext ==
    \/ SetBacktrackPosition /\ CountContexts
    \/ Backtrack /\ CountContexts

ProtocolSpec == SolverInit /\ [][ProtocolNext]_vars

NoGhosts ==
    /\ odd_calls' = ~odd_calls
    /\ CountPushes
    /\ UNCHANGED <<open_contexts, backtracked, testGenVars, walk>>

\* Any sequence of calls of the trait's methods; the contexts are not counted.
SolverNext ==
    \/ SetBacktrackPosition /\ NoGhosts
    \/ Backtrack /\ NoGhosts
    \/ AssertExpression /\ NoGhosts
    \/ Reset /\ NoGhosts
    \/ Solve /\ NoGhosts
    \/ SolveExpression /\ NoGhosts
    \/ GetModelParams /\ NoGhosts

SolverSpec == SolverInit /\ [][SolverNext]_vars

\* One TestGen: add_test calls, then one output.
TestGenInit ==
    /\ impl = "Stub"
    /\ number_of_backtracks = 0
    /\ open_contexts = 0
    /\ backtracked = FALSE
    /\ odd_calls = FALSE
    /\ pushes = 0
    /\ violated = "none"
    /\ call = Call("new", << >>, "none")
    /\ TestGenNew
    /\ walk = NoWalk

TestGenNext ==
    \/ AddTest /\ UNCHANGED <<solverVars, walk>>
    \/ Output /\ UNCHANGED <<solverVars, walk>>

TestGenSpec == TestGenInit /\ [][TestGenNext]_vars

(***************************************************************************)
(* TestGen::grab_top, statement by statement                               *)
(***************************************************************************)

\* The match on a path's value: Some(qualifier) for a QualifiedPath, None for
\* every other path.
MatchQualifier(path) ==
    IF path.kind = "QualifiedPath" THEN <<path.qualifier>> ELSE << >>

\* One grab_top call on each path of WalkPaths, and a second call on what
\* the first returned.  root is the path the input was built from.
PathInit ==
    /\ impl = "Stub"
    /\ number_of_backtracks = 0
    /\ open_contexts = 0
    /\ backtracked = FALSE
    /\ odd_calls = FALSE
    /\ pushes = 0
    /\ violated = "none"
    /\ call = Call("new", << >>, "none")
    /\ TestGenNew
    /\ \E root \in RootPaths, selectors \in SeqsUpTo(Selectors, MaxDepth) :
          walk = [NoWalk EXCEPT !.root = root,
                                !.path = Qualify(root, selectors),
                                !.pass = 1,
                                !.pc = "call"]

\* let mut last = path; let mut unqualified = match &path.value { .. };
GrabTopEnter ==
    /\ walk.pc = "call"
    /\ walk' = [walk EXCEPT !.last = walk.path,
                            !.unqualified = MatchQualifier(walk.path),
                            !.pc = "loop"]

\* A loop body that gives up after one qualifier.
MutGrabTopIterateOnce ==
    /\ walk.pc = "loop"
    /\ walk.unqualified # << >>
    /\ walk' = [walk EXCEPT !.last = walk.unqualified[1],
                            !.unqualified = << >>]

\* One iteration of while let Some(qualified) = unqualified { .. }.
GrabTopIterate ==
    /\ walk.pc = "loop"
    /\ walk.unqualified # << >>
    /\ LET qualified == walk.unqualified[1]
       IN  walk' = [walk EXCEPT !.last = qualified,
                               !.unqualified = MatchQualifier(qualified)]

\* The loop ends on None; last.clone() is returned.
GrabTopReturn ==
    /\ walk.pc = "loop"
    /\ walk.unqualified = << >>
    /\ walk' = [walk EXCEPT !.returned = <<walk.last>>, !.pc = "returned"]

\* grab_top is called on the path the first call returned.
GrabTopAgain ==
    /\ walk.pc = "returned"
    /\ walk.pass = 1
    /\ walk' = [walk EXCEPT !.path = walk.returned[1],
                            !.first = walk.returned,
                            !.returned = << >>,
                            !.pass = 2,
                            !.pc = "call"]

PathNext ==
    \/ GrabTopEnter /\ UNCHANGED <<solverVars, testGenVars>>
    \/ GrabTopIterate /\ UNCHANGED <<solverVars, testGenVars>>
    \/ GrabTopReturn /\ UNCHANGED <<solverVars, testGenVars>>
    \/ GrabTopAgain /\ UNCHANGED <<solverVars, testGenVars>>

\* A call that has started keeps running: the function is sequential code.
PathSpec == PathInit /\ [][PathNext]_vars /\ WF_vars(PathNext)

(***************************************************************************)
(* Properties of the solver protocol                                       *)
(***************************************************************************)

\* C1: on a solver with the default methods, starting with no context pushed,
\* consecutive set_backtrack_position calls with no backtrack in between pass
\* their precondition up to and including the 1000th, and the 1001st violates
\* it.  Before the call open_contexts counts the calls already made, so the
\* call is number open_contexts + 1.
C1_DepthBound ==
    [][(/\ impl = "Default"
        /\ ~backtracked
        /\ call'.op = "set_backtrack_position")
       => IF open_contexts + 1 <= 1000
          THEN violated' = "none" /\ open_contexts' = open_contexts + 1
          ELSE violated' = "set_backtrack_position"]_vars

\* The 1001st consecutive call has been made and has failed.
C1_Witness ==
    /\ impl = "Default"
    /\ ~backtracked
    /\ open_contexts = 1000
    /\ call.op = "set_backtrack_position"
    /\ violated = "set_backtrack_position"

\* C2: after any sequence of set_backtrack_position and backtrack calls on a
\* solver with the default methods, set_backtrack_position passes its
\* precondition whenever fewer than 1000 contexts are currently pushed.
C2_PushPassesBelowBound ==
    [][(/\ impl = "Default"
        /\ call'.op = "set_backtrack_position"
        /\ open_contexts < 1000)
       => violated' = "none"]_vars

\* C3: a backtrack call made when zero contexts are currently pushed violates
\* its precondition.
C3_BacktrackAtZeroFails ==
    [][(/\ impl = "Default"
        /\ call'.op = "backtrack"
        /\ open_contexts = 0)
       => violated' = "backtrack"]_vars

\* C4: for every result of its solve step, a solve_expression call that
\* returns leaves the number of pushed contexts, as tracked by the backtrack
\* counter, equal to what it was before the call.
C4_SolveExpressionRestores ==
    [][(call'.op = "solve_expression" /\ violated' = "none")
       => number_of_backtracks' = number_of_backtracks]_vars

\* C5: on SolverStub, after any sequence of calls, every solve and every
\* solve_expression returns Undefined and every get_model_params returns the
\* empty list.
C5_StubAnswers ==
    impl = "Stub" =>
        /\ call.op \in {"solve", "solve_expression"} => call.ret = "Undefined"
        /\ call.op = "get_model_params" => call.params = << >>

\* The stub has answered a solve_expression.
C5_Witness ==
    /\ impl = "Stub"
    /\ call.op = "solve_expression"
    /\ call.ret = "Undefined"
    /\ Len(call.steps) = 4

Written(k) == k \in DOMAIN files /\ files[k] # << >>

\* The unit written to the file of this key.
Unit(k) == files[k][1]

\* C6: when output runs over several groups and creating or writing the file
\* of one group fails, the failure is logged and the files of all the
\* remaining groups, later in sorted key order, are still written.  The group
\* that failed is the first in key order whose file is not written.
C6_EmitContinuesAfterFailure ==
    (status = "emitted" /\ out_dir) =>
        \A k \in DOMAIN testcase_map :
            (/\ ~Written(k)
             /\ \A before \in DOMAIN testcase_map :
                    StrLess(before, k) => Written(before))
            => /\ log # << >>
               /\ \A after \in DOMAIN testcase_map :
                      StrLess(k, after) => Written(after)

\* C7: the emitted unit of a group holds a constructor stub for an argument
\* if and only if the argument's related_to map is not empty.
C7_StubIffRelatedFields ==
    \A k \in DOMAIN testcase_map :
        Written(k) =>
            \A j \in 1 .. Len(testcase_map[k].args) :
                LET arg == testcase_map[k].args[j]
                    stubs == Unit(k).constructor_functions
                IN  (\E c \in 1 .. Len(stubs) : stubs[c].construct = arg.name)
                        <=> (DOMAIN arg.related_to # {})

\* C8: every entry of an argument's related_to map was reached through a
\* qualified path (its param_ordinal is None); a parameter whose path is the
\* argument itself is never inserted.
C8_RelatedFieldsOnlyQualified ==
    \A k \in DOMAIN testcase_map :
        \A j \in 1 .. Len(testcase_map[k].args) :
            \A n \in DOMAIN testcase_map[k].args[j].related_to :
                testcase_map[k].args[j].related_to[n].param_ordinal = << >>

\* The parameters of all the test cases of a group, in the order recorded.
RECURSIVE Recorded(_)
Recorded(testcases) ==
    IF testcases = << >> THEN << >>
    ELSE Head(testcases).param_list \o Recorded(Tail(testcases))

\* The first parameter of a list with this name and, unless j is 0, this
\* related_to, as an Option.
RECURSIVE FirstNamed(_, _, _)
FirstNamed(list, n, j) ==
    IF list = << >> THEN << >>
    ELSE IF Head(list).name = n /\ (j = 0 \/ Head(list).related_to = j)
    THEN <<Head(list)>>
    ELSE FirstNamed(Tail(list), n, j)

\* Every entry of the maps of a group is the first recorded parameter of its
\* name (for related_to: of its name and argument).
FirstRecorded(info) ==
    LET all == Recorded(info.testcases)
    IN  /\ \A n \in DOMAIN info.param_map :
               <<info.param_map[n]>> = FirstNamed(all, n, 0)
        /\ \A j \in 1 .. Len(info.args) :
               \A n \in DOMAIN info.args[j].related_to :
                   <<info.args[j].related_to[n]>> = FirstNamed(all, n, j)

\* Every entry of the maps of a group is still there, with the same value.
EntriesKept(old, new) ==
    /\ \A n \in DOMAIN old.param_map :
           n \in DOMAIN new.param_map /\ new.param_map[n] = old.param_map[n]
    /\ Len(new.args) = Len(old.args)
    /\ \A j \in 1 .. Len(old.args) :
           \A n \in DOMAIN old.args[j].related_to :
               /\ n \in DOMAIN new.args[j].related_to
               /\ new.args[j].related_to[n] = old.args[j].related_to[n]

\* C9: first write wins.  Once a display name is in an argument's related_to
\* map (and in the group's param_map), no later model parameter of that name
\* changes the stored ResolvedParam, in the same call or in a later one: no
\* step changes an entry, and after the calls that returned every entry is
\* the first parameter recorded under its name.
C9_FirstWriteWins ==
    /\ [](status # "panicked" =>
            \A k \in DOMAIN testcase_map : FirstRecorded(testcase_map[k]))
    /\ [][\A k \in DOMAIN testcase_map :
             /\ k \in DOMAIN testcase_map'
             /\ EntriesKept(testcase_map[k], testcase_map'[k])]_vars

\* A second call recorded, for the same argument and under a name already
\* stored, a parameter that differs from the stored one.
C9_Witness ==
    /\ status # "panicked"
    /\ \E k \in DOMAIN testcase_map :
          LET info == testcase_map[k]
          IN  /\ Len(info.testcases) = 2
              /\ \E j \in 1 .. Len(info.args) :
                    \E n \in DOMAIN info.args[j].related_to :
                       \E p \in 1 .. Len(info.testcases[2].param_list) :
                          LET later == info.testcases[2].param_list[p]
                          IN  /\ later.name = n
                              /\ later.related_to = j
                              /\ later # info.args[j].related_to[n]
                              /\ later.value_string
                                   # info.args[j].related_to[n].value_string

\* The testcases of a key, none for a key not in the map.
TestcasesOf(map, k) == IF k \in DOMAIN map THEN map[k].testcases ELSE << >>

\* The parameters of a test case are the model parameters of the call, in
\* the order given, each with its name and its rendered value.
HoldsParams(testcase, params) ==
    /\ Len(testcase.param_list) = Len(params)
    /\ \A i \in 1 .. Len(params) :
          /\ testcase.param_list[i].name = params[i].name
          /\ testcase.param_list[i].value_string
                = SmtParamValueToString(params[i].val)

\* A step that is an add_test call that returned: one group has one more
\* test case, at the end and holding the call's parameters, and every earlier
\* test case of every group is where it was.
AppendsOneTestcase ==
    \E k \in DOMAIN testcase_map' :
        /\ Len(testcase_map'[k].testcases) = Len(TestcasesOf(testcase_map, k)) + 1
        /\ SubSeq(testcase_map'[k].testcases, 1,
                  Len(TestcasesOf(testcase_map, k)))
              = TestcasesOf(testcase_map, k)
        /\ HoldsParams(testcase_map'[k].testcases[Len(testcase_map'[k].testcases)],
                       added'[2])
        /\ \A other \in DOMAIN testcase_map' \ {k} :
              /\ other \in DOMAIN testcase_map
              /\ testcase_map'[other].testcases = testcase_map[other].testcases
        /\ DOMAIN testcase_map \subseteq DOMAIN testcase_map'

\* The unit of a group has one test function per test case, in the order of
\* the list, numbered from 0 without gaps, each binding the parameters of
\* its test case.
TestsFollowTestcases(unit, testcases) ==
    /\ Len(unit.tests) = Len(testcases)
    /\ \A t \in 1 .. Len(testcases) :
          /\ unit.tests[t].test_ind = t - 1
          /\ Len(unit.tests[t].intializers) = Len(testcases[t].param_list)
          /\ \A p \in 1 .. Len(testcases[t].param_list) :
                /\ unit.tests[t].intializers[p].name
                      = testcases[t].param_list[p].name
                /\ unit.tests[t].intializers[p].value_string
                      = testcases[t].param_list[p].value_string

\* C10: each add_test call that returns appends exactly one test case to the
\* end of its group's list, holding the call's parameters in the order
\* given, and changes or removes no earlier test case; output emits one test
\* function per test case, in insertion order, numbered 0, 1, 2, ...
C10_TestcasesAppendOnly ==
    /\ [][(status = "running" /\ status' = "running") => AppendsOneTestcase]_vars
    /\ [](\A k \in DOMAIN testcase_map :
              Written(k) => TestsFollowTestcases(Unit(k), testcase_map[k].testcases))

\* A group with two different test cases has been written.
C10_Witness ==
    /\ status = "emitted"
    /\ \E k \in DOMAIN testcase_map :
          /\ Written(k)
          /\ Len(testcase_map[k].testcases) = 2
          /\ testcase_map[k].testcases[1] # testcase_map[k].testcases[2]
          /\ Len(Unit(k).tests) = 2

\* The map of a TestGen that received these add_test calls, in this order,
\* after the map given.
RECURSIVE Replayed(_, _)
Replayed(map, cs) ==
    IF cs = << >> THEN map
    ELSE LET function_name == Head(cs)[1]
             params == Head(cs)[2]
         IN  Replayed(add_test(map, function_name, "val", params,
                               Mir(function_name),
                               DebugNames(function_name)).map,
                      Tail(cs))

C12_GrabTopIdempotent ==
    /\ [](walk.pc = "returned" =>
            LET top == walk.returned[1]
            IN  /\ top.kind # "QualifiedPath"
                /\ top = walk.root
                /\ top = grab_top(walk.path)
                /\ walk.pass = 2 => walk.returned = walk.first
                /\ walk.root.kind = "Parameter"
                      => get_ordinal(top) = walk.root.ordinal)
    /\ <>(walk.pc = "returned" /\ walk.pass = 2)

\* Both calls have returned for a field of a field of a field of the second
\* argument.
C12_Witness ==
    /\ walk.pc = "returned"
    /\ walk.pass = 2
    /\ walk.root = Parameter(2)
    /\ walk.first = <<Parameter(2)>>
    /\ walk.returned = <<Parameter(2)>>

\* The parameters of a test case whose param_ordinal is this ordinal, in the
\* order of the list.
RECURSIVE DirectValues(_, _)
DirectValues(param_list, ordinal) ==
    IF param_list = << >> THEN << >>
    ELSE (IF Head(param_list).param_ordinal = <<ordinal>>
          THEN <<Head(param_list)>> ELSE << >>)
         \o DirectValues(Tail(param_list), ordinal)

\* C13: in every emitted test function the call of the raw function name has
\* exactly one call argument per FuncArg, in ordinal order, and for each
\* argument for which the test case holds a parameter whose param_ordinal is
\* the argument's ordinal, the call argument is the rendered value of such a
\* parameter.
C13_CallArgumentPerOrdinal ==
    \A k \in DOMAIN testcase_map :
        Written(k) =>
            \A t \in 1 .. Len(Unit(k).tests) :
                LET info == testcase_map[k]
                    func_call == Unit(k).tests[t].func_call
                    param_list == info.testcases[t].param_list
                IN  /\ func_call.func_name_raw = info.func_name_raw
                    /\ Len(func_call.params) = Len(info.args)
                    /\ \A i \in 1 .. Len(info.args) :
                          LET direct == DirectValues(param_list,
                                                     info.args[i].ordinal)
                          IN  /\ info.args[i].ordinal = i
                              /\ direct # << >> =>
                                    \E d \in 1 .. Len(direct) :
                                        func_call.params[i]
                                            = direct[d].value_string

\* The test of add_test("f", [a = 42 at Parameter(1)]) is emitted as f(42).
C13_Witness ==
    /\ <<"f">> \in DOMAIN testcase_map
    /\ Written(<<"f">>)
    /\ \E t \in 1 .. Len(Unit(<<"f">>).tests) :
          LET test == Unit(<<"f">>).tests[t]
          IN  /\ test.func_call.func_name_raw = <<"f">>
              /\ test.func_call.params = << <<"4", "2">> >>
              /\ Len(test.intializers) = 1
              /\ test.intializers[1].name = <<"a">>
              /\ test.intializers[1].value_string = <<"4", "2">>

\* The constructor calls a test function makes for the argument of this
\* display name, and the constructor stubs a unit holds for it.
RECURSIVE Constructing(_, _)
Constructing(list, name) ==
    IF list = << >> THEN << >>
    ELSE (IF Head(list).construct = name THEN <<Head(list)>> ELSE << >>)
         \o Constructing(Tail(list), name)

\* C14: for an argument that has related fields and no direct value in the
\* test case, the test function makes one constructor call, with exactly one
\* actual per entry of the argument's related_to map in the map's iteration
\* order (ascending key): Some of the local bound to the value when the test
\* case holds a parameter of that name, None when it holds none; the actuals
\* match in number and order the formal parameters of the emitted stub.
C14_ConstructorActuals ==
    \A k \in DOMAIN testcase_map :
        Written(k) =>
            \A t \in 1 .. Len(Unit(k).tests), i \in 1 .. Len(testcase_map[k].args) :
                LET arg == testcase_map[k].args[i]
                    test == Unit(k).tests[t]
                    param_list == testcase_map[k].testcases[t].param_list
                    keys == SortedKeys(DOMAIN arg.related_to)
                    calls_made ==
                        Constructing(test.constructor_param_initializers,
                                     arg.name)
                    stubs == Constructing(Unit(k).constructor_functions,
                                          arg.name)
                IN  (/\ DOMAIN arg.related_to # {}
                     /\ DirectValues(param_list, arg.ordinal) = << >>)
                    => /\ Len(calls_made) = 1
                       /\ Len(stubs) = 1
                       /\ Len(calls_made[1].params) = Len(keys)
                       /\ Len(stubs[1].params) = Len(keys)
                       /\ \A n \in 1 .. Len(keys) :
                             /\ stubs[1].params[n].name = keys[n]
                             /\ IF \E p \in 1 .. Len(param_list) :
                                       param_list[p].name = keys[n]
                                THEN /\ calls_made[1].params[n]
                                           = <<"Some", keys[n]>>
                                     /\ \E b \in 1 .. Len(test.intializers) :
                                           test.intializers[b].name = keys[n]
                                ELSE calls_made[1].params[n] = <<"None">>

\* A test function calls a constructor with (Some(a), None): of the related
\* fields a and b of the argument, its test case holds a only.
C14_Witness ==
    \E k \in DOMAIN testcase_map :
        /\ Written(k)
        /\ \E t \in 1 .. Len(Unit(k).tests) :
              LET made == Unit(k).tests[t].constructor_param_initializers
              IN  \E c \in 1 .. Len(made) :
                     made[c].params = << <<"Some", <<"a">> >>, <<"None">> >>

\* C15: for an argument that has no direct value in the test case and an
\* empty related_to map, the emitted test function makes no constructor call
\* for the argument and passes the argument's display name as the call
\* argument.
C15_NoConstructorForBareArgument ==
    \A k \in DOMAIN testcase_map :
        Written(k) =>
            \A t \in 1 .. Len(Unit(k).tests), i \in 1 .. Len(testcase_map[k].args) :
                LET arg == testcase_map[k].args[i]
                    test == Unit(k).tests[t]
                    param_list == testcase_map[k].testcases[t].param_list
                IN  (/\ DOMAIN arg.related_to = {}
                     /\ DirectValues(param_list, arg.ordinal) = << >>)
                    => /\ Constructing(test.constructor_param_initializers,
                                       arg.name) = << >>
                       /\ test.func_call.params[i] = arg.name

\* C16: in a group, made from the metadata of the function that created it,
\* every argument at 1-based ordinal k that has no debug name is named
\* param_k, after its own ordinal, and an argument with a debug name has that
\* debug name.
C16_DefaultDisplayName ==
    \A k \in DOMAIN testcase_map :
        LET info == testcase_map[k]
            debug_names == DebugNames(info.func_name_raw)
        IN  \A i \in 1 .. Len(info.args) :
                info.args[i].name =
                    IF info.args[i].ordinal \in DOMAIN debug_names
                    THEN debug_names[info.args[i].ordinal]
                    ELSE <<"p", "a", "r", "a", "m", "_">>
                            \o NatToString(info.args[i].ordinal)

\* The first of these add_test calls whose function name sanitizes to this
\* key, as an Option.
RECURSIVE FirstCallFor(_, _)
FirstCallFor(cs, k) ==
    IF cs = << >> THEN << >>
    ELSE IF function_name_filtered(Head(cs)[1]) = k THEN <<Head(cs)>>
    ELSE FirstCallFor(Tail(cs), k)

\* The raw name and the arguments of a group, less what add_test adds to.
Shape(info) ==
    [func_name |-> info.func_name,
     func_name_raw |-> info.func_name_raw,
     args |-> [i \in 1 .. Len(info.args) |->
                  [ty |-> info.args[i].ty,
                   name |-> info.args[i].name,
                   ordinal |-> info.args[i].ordinal]]]

\* A later add_test only adds to the maps and to the list of test cases.
OnlyAdds(old, new) ==
    /\ DOMAIN old.param_map \subseteq DOMAIN new.param_map
    /\ \A i \in 1 .. Len(old.args) :
          DOMAIN old.args[i].related_to \subseteq DOMAIN new.args[i].related_to
    /\ Len(old.testcases) <= Len(new.testcases)
    /\ SubSeq(new.testcases, 1, Len(old.testcases)) = old.testcases

\* C18: a group is created only by the first add_test whose function name
\* sanitizes to its key, from that call's raw name and argument metadata;
\* every later add_test that maps to the same key, also one with another raw
\* name (a.b and a::b) or other argument metadata, leaves the group's raw
\* name, its number of arguments and each argument's type, display name and
\* ordinal unchanged, and only adds to related_to, to param_map and to the
\* list of test cases.
C18_GroupCreatedOnce ==
    /\ [](\A k \in DOMAIN testcase_map :
             LET first == FirstCallFor(calls, k)
             IN  /\ first # << >>
                 /\ Shape(testcase_map[k])
                       = Shape(NewFuncTestCaseInfo(first[1][1],
                                                   Mir(first[1][1]),
                                                   DebugNames(first[1][1]))))
    /\ [][\A k \in DOMAIN testcase_map :
             /\ k \in DOMAIN testcase_map'
             /\ Shape(testcase_map'[k]) = Shape(testcase_map[k])
             /\ OnlyAdds(testcase_map[k], testcase_map'[k])]_vars

\* The group a_b, made by add_test("a.b") with two arguments, has taken a
\* second test case from add_test("a::b"), a function of one argument.
C18_Witness ==
    /\ status = "running"
    /\ Len(calls) = 2
    /\ calls[1][1] = <<"a", ".", "b">>
    /\ calls[2][1] = <<"a", ":", ":", "b">>
    /\ DOMAIN testcase_map = {<<"a", "_", "b">>}
    /\ testcase_map[<<"a", "_", "b">>].func_name_raw = <<"a", ".", "b">>
    /\ Len(testcase_map[<<"a", "_", "b">>].args) = 2
    /\ Len(testcase_map[<<"a", "_", "b">>].testcases) = 2

\* C20: when one test case holds several parameters with the same
\* param_ordinal k, the call argument emitted for argument k is the rendered
\* value of the last of them in the test case's parameter list, and the test
\* function still binds a local for every parameter of the list, in order.
C20_LastDirectValueWins ==
    \A k \in DOMAIN testcase_map :
        Written(k) =>
            \A t \in 1 .. Len(Unit(k).tests) :
                LET info == testcase_map[k]
                    test == Unit(k).tests[t]
                    param_list == info.testcases[t].param_list
                IN  /\ \A i \in 1 .. Len(info.args) :
                          LET direct == DirectValues(param_list,
                                                     info.args[i].ordinal)
                          IN  direct # << >> =>
                                 test.func_call.params[i]
                                    = direct[Len(direct)].value_string
                    /\ Len(test.intializers) = Len(param_list)
                    /\ \A p \in 1 .. Len(param_list) :
                          /\ test.intializers[p].name = param_list[p].name
                          /\ test.intializers[p].type_name
                                = param_list[p].type_name
                          /\ test.intializers[p].value_string
                                = param_list[p].value_string

\* A test case holds a = 42 and then b = -7, both at Parameter(1): the test
\* function binds both and calls with -7.
C20_Witness ==
    \E k \in DOMAIN testcase_map :
        /\ Written(k)
        /\ \E t \in 1 .. Len(Unit(k).tests) :
              LET test == Unit(k).tests[t]
                  param_list == testcase_map[k].testcases[t].param_list
              IN  /\ Len(param_list) = 2
                  /\ param_list[1].param_ordinal = <<1>>
                  /\ param_list[2].param_ordinal = <<1>>
                  /\ param_list[1].value_string = <<"4", "2">>
                  /\ param_list[2].value_string = <<"-", "7">>
                  /\ test.func_call.params[1] = <<"-", "7">>
                  /\ Len(test.intializers) = 2

====
